---- MODULE Spec2Model ----
(***************************************************************************)
(* A model of the mandelbrot renderer (src/src/main.rs): the escape-time   *)
(* evaluator, the pixel-to-plane mapping, the renderer, the argument       *)
(* parser and main's parallel per-row dispatch.                            *)
(*                                                                         *)
(* f64 is modelled as a binary floating-point format with MantBits         *)
(* significant bits, round-to-nearest-even after every operation, and a    *)
(* smallest quantum of 2^-FracBits (f64 itself is MantBits = 53 with a     *)
(* quantum of 2^-1074).  A float is held as an integer number of quanta.   *)
(* Infinities and NaN are outside the model: every input is finite and     *)
(* small.  usize is unbounded: bounds.0 * bounds.1 is assumed to fit.      *)
(***************************************************************************)
EXTENDS Integers, Sequences, FiniteSets, TLC

VARIABLES
    args,         \* env::args(): the program name and the arguments, each a
                  \* sequence of one-character strings
    pc,           \* main's position
    bounds,       \* main's bounds (width, height)
    upper_left,   \* main's upper_left
    lower_right,  \* main's lower_right
    allocated,    \* whether main's pixels vector exists
    pixels,       \* the pixel buffer: [0 .. len-1 -> byte]
    bands,        \* main's bands: a sequence of <<i, [start, len]>>
    task,         \* per band: the closure's / render's frame and position
    numThreads,   \* the size of the rayon pool running the tasks
    writes,       \* ghost: per buffer index, how many times it was written
    writer,       \* ghost: per buffer index, the tasks that wrote it
    etime,        \* ghost: per buffer index, what escape_time returned for it
    fileCreated,  \* whether write_image has created the output file
    sink,         \* what the PNG encoder was handed: <<>> or <<buffer, bounds>>
    fnIn,         \* the arguments of a direct call of a pure function
    fnOut,        \* its result
    fnPc          \* "idle", "ready" or "returned"

vars == <<args, pc, bounds, upper_left, lower_right, allocated, pixels, bands,
          task, numThreads, writes, writer, etime, fileCreated, sink,
          fnIn, fnOut, fnPc>>

mainVars == <<args, pc, bounds, upper_left, lower_right, allocated, pixels,
              bands, task, numThreads, writes, writer, etime, fileCreated, sink>>

fnVars == <<fnIn, fnOut, fnPc>>

----------------------------------------------------------------------------
(* Bounds of the model *)

MantBits == 8
FracBits == 9
MaxW == 2
MaxH == 3
MaxThreads == 2
MaxLimit == 3
MaxSliceLen == 4

(* Program constants *)

IterationLimit == 255

----------------------------------------------------------------------------
(* Option<T> *)

None == <<"None">>
Some(x) == <<"Some", x>>
IsSome(o) == o[1] = "Some"
Unwrap(o) == o[2]

----------------------------------------------------------------------------
(* f64 arithmetic *)

Unit == 2 ^ FracBits

Abs(n) == IF n < 0 THEN -n ELSE n

\* n/d (d > 0) rounded to the nearest integer, ties to even
RoundHalfEven(n, d) ==
    LET fl == n \div d
        r  == n % d
    IN  IF 2 * r < d THEN fl
        ELSE IF 2 * r > d THEN fl + 1
        ELSE IF fl % 2 = 0 THEN fl ELSE fl + 1

\* the quantum (a power of two, in units of 2^-FracBits) of the binade a/d lies in
RECURSIVE Quantum(_, _, _)
Quantum(a, d, q) ==
    IF a < (2 ^ MantBits) * q * d THEN q ELSE Quantum(a, d, 2 * q)

\* the float nearest to the rational n/d quanta (d > 0)
RndRat(n, d) ==
    LET q == Quantum(Abs(n), d, 1)
    IN  RoundHalfEven(n, d * q) * q

FAdd(a, b) == RndRat(a + b, 1)
FSub(a, b) == RndRat(a - b, 1)
FMul(a, b) == RndRat(a * b, Unit)
FDiv(a, b) == IF b > 0 THEN RndRat(a * Unit, b) ELSE RndRat((-a) * Unit, -b)

\* `n as f64`
UsizeAsF64(n) == RndRat(n * Unit, 1)

\* the f64 nearest to the decimal n/d
F(n, d) == RndRat(n * Unit, d)

(* num::Complex<f64> *)

Complex(re, im) == [re |-> re, im |-> im]

CAdd(a, b) == Complex(FAdd(a.re, b.re), FAdd(a.im, b.im))

CMul(a, b) ==
    Complex(FSub(FMul(a.re, b.re), FMul(a.im, b.im)),
            FAdd(FMul(a.re, b.im), FMul(a.im, b.re)))

norm_sqr(z) == FAdd(FMul(z.re, z.re), FMul(z.im, z.im))

----------------------------------------------------------------------------
(* escape_time *)

\* EscapeIter with the update made before the test of the norm
EscapeIterUpdateFirst(st, c, limit) ==
    IF st.ret # <<>> THEN st
    ELSE IF st.i >= limit THEN [st EXCEPT !.ret = None]
    ELSE LET z == CAdd(CMul(st.z, st.z), c)
         IN  IF norm_sqr(z) > 4 * Unit THEN [st EXCEPT !.ret = Some(st.i)]
             ELSE [st EXCEPT !.z = z, !.i = st.i + 1]

\* One pass of `for i in 0..limit`: the loop's exit with None, the return of
\* Some(i), or the update of z.  A frame that has returned stays as it is.
EscapeIter(st, c, limit) ==
    IF st.ret # <<>> THEN st
    ELSE IF st.i >= limit THEN [st EXCEPT !.ret = None]
    ELSE IF norm_sqr(st.z) > 4 * Unit THEN [st EXCEPT !.ret = Some(st.i)]
    ELSE [st EXCEPT !.z = CAdd(CMul(st.z, st.z), c), !.i = st.i + 1]

\* n passes of the loop, one after the other (split in halves to keep the
\* evaluation shallow)
RECURSIVE EscapeLoop(_, _, _, _)
EscapeLoop(st, c, limit, n) ==
    IF n = 0 \/ st.ret # <<>> THEN st
    ELSE IF n = 1 THEN EscapeIter(st, c, limit)
    ELSE EscapeLoop(EscapeLoop(st, c, limit, n \div 2), c, limit, n - n \div 2)

escape_time(c, limit) ==
    EscapeLoop([z |-> Complex(0, 0), i |-> 0, ret |-> <<>>], c, limit, limit + 1).ret

----------------------------------------------------------------------------
(* pixed_to_point *)

\* pixed_to_point with both quotients taken over bounds.1
pixed_to_point_one_bound(bnds, pixed, ul, lr) ==
    LET width  == FSub(lr.re, ul.re)
        height == FSub(ul.im, lr.im)
    IN  Complex(
          FAdd(ul.re, FDiv(FMul(UsizeAsF64(pixed[1]), width), UsizeAsF64(bnds[2]))),
          FSub(ul.im, FDiv(FMul(UsizeAsF64(pixed[2]), height), UsizeAsF64(bnds[2]))))

pixed_to_point(bnds, pixed, ul, lr) ==
    LET width  == FSub(lr.re, ul.re)
        height == FSub(ul.im, lr.im)
    IN  Complex(
          FAdd(ul.re, FDiv(FMul(UsizeAsF64(pixed[1]), width), UsizeAsF64(bnds[1]))),
          FSub(ul.im, FDiv(FMul(UsizeAsF64(pixed[2]), height), UsizeAsF64(bnds[2]))))

----------------------------------------------------------------------------
(* render's per-pixel computation *)

\* `count as u8`
AsU8(n) == n % 256

\* Intensity without the subtraction from 255
IntensityRaw(e) == IF IsSome(e) THEN AsU8(Unwrap(e)) ELSE 0

\* the match of render: None => 0, Some(count) => 255 - count as u8
Intensity(e) == IF IsSome(e) THEN 255 - AsU8(Unwrap(e)) ELSE 0

\* raw * bounds.0 + column
PixelIndex(bnds, column, raw) == raw * bnds[1] + column

\* what escape_time returns for pixel (column, raw) of a render call
PixelEscape(bnds, column, raw, ul, lr) ==
    escape_time(pixed_to_point(bnds, <<column, raw>>, ul, lr), IterationLimit)

\* the buffer one render call over a whole bnds[1] x bnds[2] slice produces
render(bnds, ul, lr) ==
    [idx \in 0 .. bnds[1] * bnds[2] - 1 |->
        Intensity(PixelEscape(bnds, idx % bnds[1], idx \div bnds[1], ul, lr))]

----------------------------------------------------------------------------
(* Strings are sequences of one-character strings. *)

DigitChars == <<"0", "1", "2", "3", "4", "5", "6", "7", "8", "9">>

IsDigit(ch) == \E k \in 1 .. 10 : DigitChars[k] = ch

DigitVal(ch) == (CHOOSE k \in 1 .. 10 : DigitChars[k] = ch) - 1

AllDigits(s) == \A k \in 1 .. Len(s) : IsDigit(s[k])

RECURSIVE DecimalVal(_)
DecimalVal(s) ==
    IF s = <<>> THEN 0
    ELSE 10 * DecimalVal(SubSeq(s, 1, Len(s) - 1)) + DigitVal(s[Len(s)])

RECURSIVE Pow10(_)
Pow10(n) == IF n = 0 THEN 1 ELSE 10 * Pow10(n - 1)

\* s.find(ch): the index (from 1) of the first ch, 0 when there is none
Find(s, ch) ==
    IF \E k \in 1 .. Len(s) : s[k] = ch
    THEN CHOOSE k \in 1 .. Len(s) : s[k] = ch /\ \A j \in 1 .. k - 1 : s[j] # ch
    ELSE 0

\* usize::from_str: an optional '+', then one or more digits
FromStrUsize(s) ==
    LET body == IF s # <<>> /\ s[1] = "+" THEN Tail(s) ELSE s
    IN  IF body # <<>> /\ AllDigits(body) THEN Some(DecimalVal(body)) ELSE None

\* f64::from_str on the decimal forms: an optional sign, digits with at most
\* one '.', at least one digit; the value is the nearest float
FromStrF64(s) ==
    LET signed == s # <<>> /\ s[1] \in {"+", "-"}
        body   == IF signed THEN Tail(s) ELSE s
        dot    == Find(body, ".")
        ip     == IF dot = 0 THEN body ELSE SubSeq(body, 1, dot - 1)
        fp     == IF dot = 0 THEN <<>> ELSE SubSeq(body, dot + 1, Len(body))
        mag    == DecimalVal(ip) * Pow10(Len(fp)) + DecimalVal(fp)
        val    == RndRat(mag * Unit, Pow10(Len(fp)))
    IN  IF AllDigits(ip) /\ AllDigits(fp) /\ Len(ip) + Len(fp) > 0
        THEN Some(IF signed /\ s[1] = "-" THEN -val ELSE val)
        ELSE None

(* parse_pair and parse_complex *)

\* T::from_str for the two types main parses
FromStr(T, s) == IF T = "usize" THEN FromStrUsize(s) ELSE FromStrF64(s)

\* parse_pair that settles for the left half when the right one does not parse
parse_pair_lenient(s, separator, T) ==
    LET index == Find(s, separator)
    IN  IF index = 0 THEN None
        ELSE LET l == FromStr(T, SubSeq(s, 1, index - 1))
                 r == FromStr(T, SubSeq(s, index + 1, Len(s)))
             IN  IF IsSome(l)
                 THEN Some(<<Unwrap(l), IF IsSome(r) THEN Unwrap(r) ELSE Unwrap(l)>>)
                 ELSE None

parse_pair(s, separator, T) ==
    LET index == Find(s, separator)
    IN  IF index = 0 THEN None
        ELSE LET l == FromStr(T, SubSeq(s, 1, index - 1))
                 r == FromStr(T, SubSeq(s, index + 1, Len(s)))
             IN  IF IsSome(l) /\ IsSome(r)
                 THEN Some(<<Unwrap(l), Unwrap(r)>>)
                 ELSE None

parse_complex(s) ==
    LET p == parse_pair(s, ",", "f64")
    IN  IF IsSome(p) THEN Some(Complex(Unwrap(p)[1], Unwrap(p)[2])) ELSE None

----------------------------------------------------------------------------
(* Direct calls of the pure functions *)

MainIdle ==
    /\ args = <<>>
    /\ pc = "lib"
    /\ bounds = <<0, 0>>
    /\ upper_left = Complex(0, 0)
    /\ lower_right = Complex(0, 0)
    /\ allocated = FALSE
    /\ pixels = [i \in {} |-> 0]
    /\ bands = <<>>
    /\ task = <<>>
    /\ numThreads = 0
    /\ writes = [i \in {} |-> 0]
    /\ writer = [i \in {} |-> {}]
    /\ etime = [i \in {} |-> None]
    /\ fileCreated = FALSE
    /\ sink = <<>>

FnIdle ==
    /\ fnIn = <<>>
    /\ fnOut = None
    /\ fnPc = "idle"

\* plane coordinates the direct calls are tried on
Coords ==
    {F(-2, 1), F(-175, 100), F(-1, 1), F(-28, 100), F(-9, 100), F(0, 1),
     F(1, 8), F(2, 100), F(27, 100), F(1, 1), F(102, 100), F(125, 100),
     F(2, 1), F(3, 1)}

(* escape_time(c, limit) *)

Limits == (0 .. MaxLimit) \cup {IterationLimit}

InitEscape ==
    /\ MainIdle
    /\ fnIn \in [c : [re : Coords, im : Coords], limit : Limits]
    /\ fnOut = None
    /\ fnPc = "ready"

CallEscapeTime ==
    /\ fnPc = "ready"
    /\ fnOut' = escape_time(fnIn.c, fnIn.limit)
    /\ fnPc' = "returned"
    /\ UNCHANGED <<fnIn, mainVars>>

SpecEscape == InitEscape /\ [][CallEscapeTime]_vars

(* pixed_to_point(bounds, pixed, upper_left, lower_right) *)

PointCoordsLeft == {F(-175, 100), F(-1, 1), F(2, 100)}
PointCoordsRight == {F(-28, 100), F(1, 1), F(102, 100)}
PointCoordsTop == {F(125, 100), F(1, 1), F(27, 100)}
PointCoordsBottom == {F(-9, 100), F(-1, 1), F(0, 1)}

\* the call of test_pixed_to_point
TestPointCall ==
    [bounds |-> <<100, 200>>, pixed |-> <<25, 175>>,
     upper_left |-> Complex(F(-1, 1), F(1, 1)),
     lower_right |-> Complex(F(1, 1), F(-1, 1))]

PointCalls ==
    {TestPointCall} \cup
    {[bounds |-> <<w, h>>, pixed |-> <<col, row>>,
      upper_left |-> Complex(l, t), lower_right |-> Complex(r, b)] :
        w \in 1 .. MaxW, h \in 1 .. MaxH, col \in 0 .. MaxW, row \in 0 .. MaxH,
        l \in PointCoordsLeft, r \in PointCoordsRight,
        t \in PointCoordsTop, b \in PointCoordsBottom}

InitPoint ==
    /\ MainIdle
    /\ fnIn \in {x \in PointCalls :
                    x.pixed[1] <= x.bounds[1] /\ x.pixed[2] <= x.bounds[2]}
    /\ fnOut = None
    /\ fnPc = "ready"

CallPixedToPoint ==
    /\ fnPc = "ready"
    /\ fnOut' = Some(pixed_to_point(fnIn.bounds, fnIn.pixed,
                                    fnIn.upper_left, fnIn.lower_right))
    /\ fnPc' = "returned"
    /\ UNCHANGED <<fnIn, mainVars>>

SpecPoint == InitPoint /\ [][CallPixedToPoint]_vars

----------------------------------------------------------------------------
(* main *)

\* chunks that each start one byte early (all but the first)
RECURSIVE ChunksFromShifted(_, _, _)
ChunksFromShifted(start, len, size) ==
    IF start >= len THEN <<>>
    ELSE <<[start |-> IF start = 0 THEN 0 ELSE start - 1,
            len |-> IF len - start < size THEN len - start ELSE size]>>
         \o ChunksFromShifted(start + size, len, size)

\* chunks that leave a byte out between one chunk and the next
RECURSIVE ChunksFromGapped(_, _, _)
ChunksFromGapped(start, len, size) ==
    IF start >= len THEN <<>>
    ELSE <<[start |-> start,
            len |-> IF len - start < size THEN len - start ELSE size]>>
         \o ChunksFromGapped(start + size + 1, len, size)

\* slice.chunks_mut(size) over a slice of len bytes: full chunks in order, the
\* last one holding what is left
RECURSIVE ChunksFrom(_, _, _)
ChunksFrom(start, len, size) ==
    IF start >= len THEN <<>>
    ELSE <<[start |-> start,
            len |-> IF len - start < size THEN len - start ELSE size]>>
         \o ChunksFrom(start + size, len, size)

ChunksMut(len, size) == ChunksFrom(0, len, size)

\* .enumerate()
Enumerate(seq) == [k \in 1 .. Len(seq) |-> <<k - 1, seq[k]>>]

\* for_each returning as soon as every task has been picked up
ForEachReturnsUnjoined == \A k \in 1 .. Len(task) : task[k].st # "queued"

\* for_each returns to main once every task of the parallel iterator has ended
ForEachReturns == \A k \in 1 .. Len(task) : task[k].st \in {"done", "panicked"}

Running == {k \in 1 .. Len(task) : task[k].st \in {"assert", "loop"}}

Arg(k) == args[k + 1]

RECURSIVE UsizeToStr(_)
UsizeToStr(n) ==
    IF n < 10 THEN <<DigitChars[n + 1]>>
    ELSE UsizeToStr(n \div 10) \o <<DigitChars[(n % 10) + 1]>>

\* the PIXELS arguments tried: every WxH up to the bounds, and malformed ones
PixelsArgs ==
    {UsizeToStr(w) \o <<"x">> \o UsizeToStr(h) : w \in 0 .. MaxW, h \in 0 .. MaxH}
    \cup {<<>>, <<"2">>, <<"x", "2">>, <<"2", "x">>, <<"2", "x", "2", "x">>,
          <<"2", ",", "2">>}

UpperLeftArgs ==
    {<<"-", "2", ",", "1">>,
     <<"0", ".", "2", "7", ",", "-", "0", ".", "7", "2">>,
     <<"-", "2">>,
     <<",", "1">>}

LowerRightArgs ==
    {<<"1", ",", "-", "1">>,
     <<"1", ".", "2", "7", ",", "-", "1">>,
     <<"1", ",">>,
     <<"1", ",", "-">>}

ArgVectors ==
    {<<<<"m">>, <<"o">>, p, ul, lr>> :
        p \in PixelsArgs, ul \in UpperLeftArgs, lr \in LowerRightArgs}
    \cup {<<<<"m">>>>, <<<<"m">>, <<"o">>, <<"2", "x", "2">>>>}

Init ==
    /\ args \in ArgVectors
    /\ pc = "start"
    /\ bounds = <<0, 0>>
    /\ upper_left = Complex(0, 0)
    /\ lower_right = Complex(0, 0)
    /\ allocated = FALSE
    /\ pixels = [i \in {} |-> 0]
    /\ bands = <<>>
    /\ task = <<>>
    /\ numThreads = 0
    /\ writes = [i \in {} |-> 0]
    /\ writer = [i \in {} |-> {}]
    /\ etime = [i \in {} |-> None]
    /\ fileCreated = FALSE
    /\ sink = <<>>
    /\ FnIdle

\* if args.len() != 5 { ...; std::process::exit(1) }
MainCheckArgs ==
    /\ pc = "start"
    /\ pc' = IF Len(args) # 5 THEN "exit1" ELSE "parse_bounds"
    /\ UNCHANGED <<args, bounds, upper_left, lower_right, allocated, pixels,
                   bands, task, numThreads, writes, writer, etime,
                   fileCreated, sink, fnVars>>

\* let bounds = parse_pair(&args[2], 'x').expect(..)
MainParseBounds ==
    /\ pc = "parse_bounds"
    /\ LET r == parse_pair(Arg(2), "x", "usize")
       IN  IF IsSome(r)
           THEN bounds' = Unwrap(r) /\ pc' = "parse_upper_left"
           ELSE bounds' = bounds /\ pc' = "panic"
    /\ UNCHANGED <<args, upper_left, lower_right, allocated, pixels,
                   bands, task, numThreads, writes, writer, etime,
                   fileCreated, sink, fnVars>>

\* let upper_left = parse_complex(&args[3]).expect(..)
MainParseUpperLeft ==
    /\ pc = "parse_upper_left"
    /\ LET r == parse_complex(Arg(3))
       IN  IF IsSome(r)
           THEN upper_left' = Unwrap(r) /\ pc' = "parse_lower_right"
           ELSE upper_left' = upper_left /\ pc' = "panic"
    /\ UNCHANGED <<args, bounds, lower_right, allocated, pixels,
                   bands, task, numThreads, writes, writer, etime,
                   fileCreated, sink, fnVars>>

\* let lower_right = parse_complex(&args[4]).expect(..)
MainParseLowerRight ==
    /\ pc = "parse_lower_right"
    /\ LET r == parse_complex(Arg(4))
       IN  IF IsSome(r)
           THEN lower_right' = Unwrap(r) /\ pc' = "alloc"
           ELSE lower_right' = lower_right /\ pc' = "panic"
    /\ UNCHANGED <<args, bounds, upper_left, allocated, pixels,
                   bands, task, numThreads, writes, writer, etime,
                   fileCreated, sink, fnVars>>

\* let mut pixels = vec![0; bounds.0 * bounds.1]
MainAlloc ==
    /\ pc = "alloc"
    /\ LET n == bounds[1] * bounds[2]
       IN  /\ pixels' = [i \in 0 .. n - 1 |-> 0]
           /\ writes' = [i \in 0 .. n - 1 |-> 0]
           /\ writer' = [i \in 0 .. n - 1 |-> {}]
           /\ etime' = [i \in 0 .. n - 1 |-> None]
    /\ allocated' = TRUE
    /\ pc' = "chunks"
    /\ UNCHANGED <<args, bounds, upper_left, lower_right, bands, task,
                   numThreads, fileCreated, sink, fnVars>>

\* let bands = pixels.chunks_mut(bounds.0).enumerate().collect()
\* (chunks_mut panics on a chunk size of 0)
MainChunks ==
    /\ pc = "chunks"
    /\ IF bounds[1] = 0
       THEN bands' = bands /\ pc' = "panic"
       ELSE /\ bands' = Enumerate(ChunksMut(bounds[1] * bounds[2], bounds[1]))
            /\ pc' = "par_iter"
    /\ UNCHANGED <<args, bounds, upper_left, lower_right, allocated, pixels,
                   task, numThreads, writes, writer, etime, fileCreated,
                   sink, fnVars>>

\* bands.into_par_iter().for_each(..): one task per band, queued on a rayon
\* pool of some number of threads
MainForEach ==
    /\ pc = "par_iter"
    /\ \E n \in 1 .. MaxThreads : numThreads' = n
    /\ task' = [k \in 1 .. Len(bands) |->
                  [st |-> "queued", start |-> bands[k][2].start,
                   len |-> bands[k][2].len, bnds |-> <<0, 0>>,
                   ul |-> Complex(0, 0), lr |-> Complex(0, 0),
                   raw |-> 0, column |-> 0]]
    /\ pc' = "for_each"
    /\ UNCHANGED <<args, bounds, upper_left, lower_right, allocated, pixels,
                   bands, writes, writer, etime, fileCreated, sink, fnVars>>

\* the closure taking its row from the number of closures started before it
TaskStartSharedCounter(k) ==
    /\ pc = "for_each"
    /\ task[k].st = "queued"
    /\ Cardinality(Running) < numThreads
    /\ LET top == Cardinality({j \in 1 .. Len(task) : task[j].st # "queued"})
       IN  task' = [task EXCEPT ![k] =
              [@ EXCEPT !.st = "assert",
                        !.bnds = <<bounds[1], 1>>,
                        !.ul = pixed_to_point(bounds, <<0, top>>,
                                              upper_left, lower_right),
                        !.lr = pixed_to_point(bounds, <<bounds[1], top + 1>>,
                                              upper_left, lower_right)]]
    /\ UNCHANGED <<args, pc, bounds, upper_left, lower_right, allocated, pixels,
                   bands, numThreads, writes, writer, etime, fileCreated,
                   sink, fnVars>>

\* the closure, on a free thread of the pool, up to its call of render
TaskStart(k) ==
    /\ pc = "for_each"
    /\ task[k].st = "queued"
    /\ Cardinality(Running) < numThreads
    /\ LET top == bands[k][1]
       IN  task' = [task EXCEPT ![k] =
              [@ EXCEPT !.st = "assert",
                        !.bnds = <<bounds[1], 1>>,
                        !.ul = pixed_to_point(bounds, <<0, top>>,
                                              upper_left, lower_right),
                        !.lr = pixed_to_point(bounds, <<bounds[1], top + 1>>,
                                              upper_left, lower_right)]]
    /\ UNCHANGED <<args, pc, bounds, upper_left, lower_right, allocated, pixels,
                   bands, numThreads, writes, writer, etime, fileCreated,
                   sink, fnVars>>

\* the assertion as pixels.len() >= bounds.0 * bounds.1
AssertGe(a, b) == a >= b

\* assert_eq!(pixels.len(), bounds.0 * bounds.1)
AssertEq(a, b) == a = b

\* render: the assertion, and the entry of the loops
RenderAssert(k) ==
    /\ task[k].st = "assert"
    /\ LET t == task[k]
       IN  task' = [task EXCEPT ![k].st =
              IF ~AssertEq(t.len, t.bnds[1] * t.bnds[2]) THEN "panicked"
              ELSE IF t.bnds[1] = 0 \/ t.bnds[2] = 0 THEN "done"
              ELSE "loop"]
    /\ UNCHANGED <<args, pc, bounds, upper_left, lower_right, allocated, pixels,
                   bands, numThreads, writes, writer, etime, fileCreated,
                   sink, fnVars>>

\* render: one pass of the inner loop, pixels[raw * bounds.0 + column] = ..
\* (an index past the slice panics)
RenderPixel(k) ==
    /\ task[k].st = "loop"
    /\ LET t     == task[k]
           local == PixelIndex(t.bnds, t.column, t.raw)
           e     == PixelEscape(t.bnds, t.column, t.raw, t.ul, t.lr)
           last  == t.column + 1 = t.bnds[1]
       IN  IF local >= t.len
           THEN /\ task' = [task EXCEPT ![k].st = "panicked"]
                /\ UNCHANGED <<pixels, writes, writer, etime>>
           ELSE /\ pixels' = [pixels EXCEPT ![t.start + local] = Intensity(e)]
                /\ writes' = [writes EXCEPT ![t.start + local] = @ + 1]
                /\ writer' = [writer EXCEPT ![t.start + local] = @ \cup {k}]
                /\ etime' = [etime EXCEPT ![t.start + local] = e]
                /\ task' = [task EXCEPT ![k] =
                     [@ EXCEPT !.column = IF last THEN 0 ELSE t.column + 1,
                               !.raw = IF last THEN t.raw + 1 ELSE t.raw,
                               !.st = IF last /\ t.raw + 1 = t.bnds[2]
                                      THEN "done" ELSE "loop"]]
    /\ UNCHANGED <<args, pc, bounds, upper_left, lower_right, allocated,
                   bands, numThreads, fileCreated, sink, fnVars>>

\* for_each returns (or propagates a task's panic)
MainJoin ==
    /\ pc = "for_each"
    /\ ForEachReturns
    /\ pc' = IF \E k \in 1 .. Len(task) : task[k].st = "panicked"
             THEN "panic" ELSE "write_image"
    /\ UNCHANGED <<args, bounds, upper_left, lower_right, allocated, pixels,
                   bands, task, numThreads, writes, writer, etime,
                   fileCreated, sink, fnVars>>

\* write_image(&args[1], &pixels, bounds).expect(..): File::create or the
\* encoder may fail
MainWriteImage ==
    /\ pc = "write_image"
    /\ \/ /\ fileCreated' = FALSE /\ sink' = sink /\ pc' = "panic"
       \/ /\ fileCreated' = TRUE /\ sink' = sink /\ pc' = "panic"
       \/ /\ fileCreated' = TRUE /\ sink' = <<pixels, bounds>> /\ pc' = "done"
    /\ UNCHANGED <<args, bounds, upper_left, lower_right, allocated, pixels,
                   bands, task, numThreads, writes, writer, etime, fnVars>>

Next ==
    \/ MainCheckArgs
    \/ MainParseBounds
    \/ MainParseUpperLeft
    \/ MainParseLowerRight
    \/ MainAlloc
    \/ MainChunks
    \/ MainForEach
    \/ \E k \in 1 .. Len(task) : TaskStart(k)
    \/ \E k \in 1 .. Len(task) : RenderAssert(k)
    \/ \E k \in 1 .. Len(task) : RenderPixel(k)
    \/ MainJoin
    \/ MainWriteImage

Spec == Init /\ [][Next]_vars

----------------------------------------------------------------------------
(* render(pixels, bounds, upper_left, lower_right), called directly on a    *)
(* slice of any length                                                      *)

RenderRects ==
    {<<Complex(F(-2, 1), F(1, 1)), Complex(F(1, 1), F(-1, 1))>>,
     <<Complex(F(27, 100), F(-72, 100)), Complex(F(127, 100), F(-1, 1))>>}

InitRender ==
    /\ args = <<>>
    /\ pc = "lib"
    /\ bounds = <<0, 0>>
    /\ upper_left = Complex(0, 0)
    /\ lower_right = Complex(0, 0)
    /\ allocated = TRUE
    /\ bands = <<>>
    /\ numThreads = 1
    /\ fileCreated = FALSE
    /\ sink = <<>>
    /\ FnIdle
    /\ \E n \in 0 .. MaxSliceLen, w \in 0 .. MaxW, h \in 0 .. MaxH,
          rect \in RenderRects :
          /\ pixels = [i \in 0 .. n - 1 |-> 0]
          /\ writes = [i \in 0 .. n - 1 |-> 0]
          /\ writer = [i \in 0 .. n - 1 |-> {}]
          /\ etime = [i \in 0 .. n - 1 |-> None]
          /\ task = <<[st |-> "assert", start |-> 0, len |-> n,
                       bnds |-> <<w, h>>, ul |-> rect[1], lr |-> rect[2],
                       raw |-> 0, column |-> 0]>>

NextRender ==
    \/ \E k \in 1 .. Len(task) : RenderAssert(k)
    \/ \E k \in 1 .. Len(task) : RenderPixel(k)

SpecRender == InitRender /\ [][NextRender]_vars

----------------------------------------------------------------------------
(* Properties *)

Joined == pc \in {"write_image", "done"}

\* the plane rectangle main's closure gives band i
BandRect(i) ==
    <<pixed_to_point(bounds, <<0, i>>, upper_left, lower_right),
      pixed_to_point(bounds, <<bounds[1], i + 1>>, upper_left, lower_right)>>

\* what escape_time returns for buffer index idx when row idx \div W is
\* rendered as a band of its own
BandEscape(idx) ==
    LET row == idx \div bounds[1]
    IN  PixelEscape(<<bounds[1], 1>>, idx % bounds[1], 0,
                    BandRect(row)[1], BandRect(row)[2])

\* the buffer as a function of bounds and the rectangle alone: every row
\* rendered as a band, in index order
BandwiseBuffer ==
    [idx \in 0 .. bounds[1] * bounds[2] - 1 |-> Intensity(BandEscape(idx))]

\* the bands (by position in `bands`) whose slice holds buffer index idx
Owners(idx) ==
    {k \in 1 .. Len(bands) :
        bands[k][2].start <= idx /\ idx < bands[k][2].start + bands[k][2].len}

\* C1: once for_each has returned, the buffer is the one function of bounds
\* and the plane rectangle, whatever the number of threads and the order and
\* interleaving in which the band tasks ran.
C1_Deterministic == Joined => pixels = BandwiseBuffer

C1_Witness ==
    /\ pc = "done"
    /\ numThreads >= 2
    /\ Len(task) >= 2
    /\ bounds[1] >= 2
    /\ \E i, j \in DOMAIN pixels : pixels[i] # pixels[j]

\* C2: for positive bounds (W, H), chunks_mut(W).enumerate() yields exactly H
\* bands, band i being the W bytes [i*W, (i+1)*W), and every buffer index lies
\* in exactly one band.
C2_Partition ==
    (bounds[1] >= 1 /\ bounds[2] >= 1
        /\ pc \in {"par_iter", "for_each", "write_image", "done"})
    => /\ Len(bands) = bounds[2]
       /\ \A k \in 1 .. Len(bands) :
             bands[k] = <<k - 1, [start |-> (k - 1) * bounds[1],
                                  len |-> bounds[1]]>>
       /\ \A idx \in 0 .. bounds[1] * bounds[2] - 1 :
             Cardinality(Owners(idx)) = 1

C2_Witness ==
    /\ pc = "par_iter"
    /\ Len(bands) >= 2
    /\ bounds[1] >= 2

\* C3: while the bands render, no buffer index is written more than once nor
\* by a task other than the one whose band holds it, an unwritten byte is
\* still 0, and once every band has finished every index was written once.
C3_WrittenOnce ==
    pc \in {"for_each", "write_image", "done"}
    => \A idx \in DOMAIN pixels :
          /\ writes[idx] <= 1
          /\ writer[idx] \subseteq Owners(idx)
          /\ Cardinality(writer[idx]) = writes[idx]
          /\ writes[idx] = 0 => pixels[idx] = 0
          /\ Joined => writes[idx] = 1

C3_Witness ==
    /\ pc = "for_each"
    /\ Cardinality({k \in 1 .. Len(task) : task[k].st = "loop"}) >= 2
    /\ \E i, j \in DOMAIN pixels : writes[i] = 1 /\ writes[j] = 0

\* C4: write_image is reached, the file created and the buffer handed to the
\* encoder only when every band task has finished, and what the encoder was
\* handed is the buffer as it stays: no task writes at or after the hand-off.
C4_HandOffAfterJoin ==
    (Joined \/ fileCreated \/ sink # <<>>)
    => /\ \A k \in 1 .. Len(task) : task[k].st = "done"
       /\ \A idx \in DOMAIN pixels : writes[idx] = 1
       /\ sink # <<>> => sink = <<pixels, bounds>>

C4_Witness ==
    /\ pc = "done"
    /\ sink # <<>>
    /\ Len(task) >= 2
    /\ numThreads >= 2

\* C5: the band-wise buffer equals the buffer of one render call over the
\* whole buffer with the full bounds and the full rectangle.
C5_BandwiseEqualsWhole ==
    Joined => pixels = render(bounds, upper_left, lower_right)

\* C6 as claimed: for every c with |c| > 2 (exactly) and every limit,
\* escape_time returns Some(0).
C6_EscapedAtZero ==
    (fnPc = "returned"
        /\ fnIn.c.re * fnIn.c.re + fnIn.c.im * fnIn.c.im > 4 * Unit * Unit)
    => fnOut = Some(0)

\* C6 as amended: the first test is made on z = 0 and c itself is tested on
\* the second pass, so for every c whose computed norm_sqr exceeds 4.0
\* escape_time returns Some(1) when the limit is at least 2 and None when it
\* is 0 or 1; Some(0) is never returned.
C6_EscapedAtOne ==
    fnPc = "returned"
    => /\ fnOut # Some(0)
       /\ fnIn.limit <= 1 => fnOut = None
       /\ (norm_sqr(fnIn.c) > 4 * Unit /\ fnIn.limit >= 2) => fnOut = Some(1)

C6_Witness ==
    /\ fnPc = "returned"
    /\ norm_sqr(fnIn.c) > 4 * Unit
    /\ fnIn.limit = IterationLimit
    /\ fnOut = Some(1)

Max(a, b) == IF a >= b THEN a ELSE b

\* how far, in quanta times `by`, the coordinate `got` is from the exact
\* affine value from + n * (to - from) / by
AffineError(got, from, to, n, by) == Abs(by * got - (by * from + n * (to - from)))

\* a few units in the last place of the larger corner coordinate (and of the
\* smallest quantum), times `by` and 2^MantBits
RoundingSlack(from, to, by) ==
    8 * by * Max(Abs(from), Abs(to)) + 2 * by * 2 ^ MantBits

\* C7 as claimed: pixel (0, 0) maps to upper_left and pixel (W, H) maps to
\* lower_right.
C7_CornersExact ==
    fnPc = "returned"
    => /\ fnIn.pixed = <<0, 0>> => Unwrap(fnOut) = fnIn.upper_left
       /\ fnIn.pixed = fnIn.bounds => Unwrap(fnOut) = fnIn.lower_right

\* C7 as amended: pixel (0, 0) maps to upper_left exactly, the call of
\* test_pixed_to_point yields (-0.5, -0.75) exactly, and every pixel up to
\* (W, H) maps to within a few units in the last place of the exact affine
\* value, each operation of the formula rounding once.
C7_AffineUpToRounding ==
    fnPc = "returned"
    => LET out == Unwrap(fnOut)
           ul  == fnIn.upper_left
           lr  == fnIn.lower_right
       IN  /\ fnIn.pixed = <<0, 0>> => out = ul
           /\ fnIn = TestPointCall => out = Complex(F(-1, 2), F(-3, 4))
           /\ 2 ^ MantBits
                * AffineError(out.re, ul.re, lr.re, fnIn.pixed[1], fnIn.bounds[1])
                <= RoundingSlack(ul.re, lr.re, fnIn.bounds[1])
           /\ 2 ^ MantBits
                * AffineError(out.im, ul.im, lr.im, fnIn.pixed[2], fnIn.bounds[2])
                <= RoundingSlack(ul.im, lr.im, fnIn.bounds[2])

C7_Witness ==
    /\ fnPc = "returned"
    /\ fnIn.pixed = fnIn.bounds
    /\ Unwrap(fnOut) # fnIn.lower_right
    /\ Unwrap(fnOut).re # fnIn.upper_left.re

\* C8: a render call on a slice whose length differs from bounds.0 * bounds.1
\* stops at the assertion: it is at the assertion or has panicked, and no byte
\* of the slice was written or computed.
C8_AssertBeforeWrite ==
    \A k \in 1 .. Len(task) :
        (task[k].st # "queued" /\ task[k].len # task[k].bnds[1] * task[k].bnds[2])
        => /\ task[k].st \in {"assert", "panicked"}
           /\ \A idx \in DOMAIN pixels :
                 writes[idx] = 0 /\ pixels[idx] = 0 /\ etime[idx] = None

C8_Witness ==
    \E k \in 1 .. Len(task) :
        /\ task[k].st = "panicked"
        /\ task[k].len > task[k].bnds[1] * task[k].bnds[2]
        /\ task[k].bnds[1] * task[k].bnds[2] > 0

\* an argument parse_pair is documented to reject: no separator, or a side of
\* the first separator that T::from_str does not parse
Malformed(s, separator, T) ==
    LET index == Find(s, separator)
    IN  \/ index = 0
        \/ ~IsSome(FromStr(T, SubSeq(s, 1, index - 1)))
        \/ ~IsSome(FromStr(T, SubSeq(s, index + 1, Len(s))))

AnyMalformed ==
    \/ Malformed(Arg(2), "x", "usize")
    \/ Malformed(Arg(3), ",", "f64")
    \/ Malformed(Arg(4), ",", "f64")

\* C9: with a malformed dimension or corner argument main never gets past
\* its parsing: no buffer is allocated, no band exists or is rendered and no
\* file is created; main is past the parsing only with three well-formed
\* arguments.
C9_ParseBeforeCore ==
    (Len(args) = 5 /\ AnyMalformed)
    => /\ pc \in {"start", "parse_bounds", "parse_upper_left",
                  "parse_lower_right", "panic"}
       /\ ~allocated
       /\ bands = <<>>
       /\ task = <<>>
       /\ ~fileCreated
       /\ sink = <<>>

C9_Witness ==
    /\ pc = "panic"
    /\ Len(args) = 5
    /\ ~Malformed(Arg(2), "x", "usize")
    /\ ~Malformed(Arg(3), ",", "f64")
    /\ Find(Arg(4), ",") # 0
    /\ Malformed(Arg(4), ",", "f64")
    /\ ~allocated

\* C10: a written byte is 0 when escape_time(point, 255) returned None, and
\* when it returned Some(i) then i < 255 and the byte is 255 - (i mod 256),
\* which is not 0; in the finished buffer the value escape_time returned is
\* the one for the band's pixel.
C10_Intensity ==
    pc \in {"for_each", "write_image", "done"}
    => \A idx \in DOMAIN pixels :
          /\ writes[idx] >= 1 =>
                LET e == etime[idx]
                IN  IF IsSome(e)
                    THEN /\ Unwrap(e) < IterationLimit
                         /\ pixels[idx] = 255 - (Unwrap(e) % 256)
                         /\ pixels[idx] \in 1 .. 255
                    ELSE pixels[idx] = 0
          /\ pc = "done" =>
                /\ etime[idx] = BandEscape(idx)
                /\ pixels[idx] = 0 <=> etime[idx] = None

C10_Witness ==
    /\ pc = "done"
    /\ \E i, j \in DOMAIN pixels :
          /\ pixels[i] = 0 /\ etime[i] = None
          /\ pixels[j] # 0 /\ IsSome(etime[j]) /\ Unwrap(etime[j]) > 1

====
